---- MODULE Spec2Model ----
(***************************************************************************)
(* A model of the merge engine of stjudecloud/merge-counts:                *)
(* src/mergecounts/utils/matrix.py (the two mergers, the concordance test, *)
(* the coherence check, download_and_merge_counts) and the stand-alone     *)
(* src/mergecounts/__main__.py.                                            *)
(*                                                                         *)
(* A pandas DataFrame is a record                                          *)
(*   [index : sequence of row keys, columns : sequence of labels,          *)
(*    data  : sequence (one per column) of functions row key -> value].    *)
(* Row keys are the naturals 1, 2, 3 standing for the gene names g1, g2,   *)
(* g3 (their order is the lexicographic order of the names).  A column     *)
(* label is a Python string, modelled as the sequence of its character     *)
(* codes, so that pandas' "_x"/"_y" suffixes and Python's sorted() are     *)
(* computed as the library computes them.                                  *)
(***************************************************************************)
EXTENDS Integers, Sequences, FiniteSets, TLC

\* Largest number of input tables of a call.
MaxN == 4

\* ------------------------------------------------------------------------
\* Strings, labels and row keys
\* ------------------------------------------------------------------------

\* The gene names g1 < g2 < g3.
Genes == {1, 2, 3}

\* Sample identifiers "a", "b", "c", ..., one per table of the longest list.
SampleNames == {<<96 + k>> : k \in 1..MaxN}

\* The two identifiers that may be repeated in an input list.
RepeatedNames == {<<97>>, <<98>>}

\* pandas' default merge suffixes "_x" and "_y".
SuffixX == <<95, 120>>
SuffixY == <<95, 121>>

\* The missing marker (NaN) an outer join puts where a side has no row.
NaN == -1

Range(s) == {s[i] : i \in DOMAIN s}

NoDuplicates(s) == \A i, j \in DOMAIN s : i # j => s[i] # s[j]

\* Python's str.__lt__: code-point lexicographic order, a proper prefix first.
RECURSIVE StrLess(_, _)
StrLess(s, t) ==
    IF t = <<>> THEN FALSE
    ELSE IF s = <<>> THEN TRUE
    ELSE IF Head(s) # Head(t) THEN Head(s) < Head(t)
    ELSE StrLess(Tail(s), Tail(t))

StrLeq(s, t) == s = t \/ StrLess(s, t)

\* Insert label l into the sorted sequence s, after the labels equal to it.
RECURSIVE InsertSorted(_, _)
InsertSorted(s, l) ==
    IF s = <<>> THEN <<l>>
    ELSE IF StrLess(l, Head(s)) THEN <<l>> \o s
    ELSE <<Head(s)>> \o InsertSorted(Tail(s), l)

\* Python's sorted() on a list of strings (stable, duplicates kept).
RECURSIVE SortLabels(_)
SortLabels(s) ==
    IF s = <<>> THEN <<>>
    ELSE InsertSorted(SortLabels(SubSeq(s, 1, Len(s) - 1)), s[Len(s)])

IsSortedLabels(s) == \A i \in 1..(Len(s) - 1) : StrLeq(s[i], s[i + 1])

\* The members of a set of row keys in ascending order.
RECURSIVE SortKeys(_)
SortKeys(S) ==
    IF S = {} THEN <<>>
    ELSE LET m == CHOOSE x \in S : \A y \in S : x <= y
         IN <<m>> \o SortKeys(S \ {m})

\* ------------------------------------------------------------------------
\* DataFrames
\* ------------------------------------------------------------------------

\* Python's None where a DataFrame is expected.
NoFrame == [index |-> <<>>, columns |-> <<>>, data |-> <<>>]

\* DataFrame.shape
Shape(df) == <<Len(df.index), Len(df.columns)>>

\* The count that input file number i holds for gene g.
Count(i, g) == 10 * g + (i - 1)

\* The one-column table read_counts builds from input file number i.
Table(i, label, idx) ==
    [index   |-> idx,
     columns |-> <<label>>,
     data    |-> << [g \in Range(idx) |-> Count(i, g)] >>]

\* JoinIndex with how="left" in place of how="outer": the left index alone.
JoinIndexLeft(li, ri) == li

\* The row index of an outer join on the index: an index equal to the other
\* is kept as it is, otherwise the union of the keys, sorted.
JoinIndex(li, ri) ==
    IF li = ri THEN li ELSE SortKeys(Range(li) \cup Range(ri))

\* A column's values over the joined index, NaN where the side has no row.
Realign(col, idx) ==
    [g \in Range(idx) |-> IF g \in DOMAIN col THEN col[g] ELSE NaN]

\* Column labels of one side of a merge: a label both sides hold gets the suffix.
Suffixed(cols, overlap, suffix) ==
    [j \in DOMAIN cols |-> IF cols[j] \in overlap THEN cols[j] \o suffix ELSE cols[j]]

\* Merge with the two sides' data columns put in the opposite order to their
\* labels.
MergeDataSwapped(left, right) ==
    LET idx     == JoinIndex(left.index, right.index)
        overlap == Range(left.columns) \cap Range(right.columns)
    IN [index   |-> idx,
        columns |-> Suffixed(left.columns, overlap, SuffixX)
                      \o Suffixed(right.columns, overlap, SuffixY),
        data    |-> [j \in DOMAIN right.data |-> Realign(right.data[j], idx)]
                      \o [j \in DOMAIN left.data |-> Realign(left.data[j], idx)]]

\* left.merge(right, how="outer", left_index=True, right_index=True)
Merge(left, right) ==
    LET idx     == JoinIndex(left.index, right.index)
        overlap == Range(left.columns) \cap Range(right.columns)
    IN [index   |-> idx,
        columns |-> Suffixed(left.columns, overlap, SuffixX)
                      \o Suffixed(right.columns, overlap, SuffixY),
        data    |-> [j \in DOMAIN left.data |-> Realign(left.data[j], idx)]
                      \o [j \in DOMAIN right.data |-> Realign(right.data[j], idx)]]

\* Positions of the columns of cols labelled l, in column order.
PositionsOf(cols, l) ==
    SelectSeq([j \in DOMAIN cols |-> j], LAMBDA j : cols[j] = l)

RECURSIVE SelectPositions(_, _)
SelectPositions(cols, labels) ==
    IF labels = <<>> THEN <<>>
    ELSE PositionsOf(cols, Head(labels)) \o SelectPositions(cols, Tail(labels))

\* df[labels]: for each label of the list, every column that carries it.
SelectColumns(df, labels) ==
    LET pos == SelectPositions(df.columns, labels)
    IN [index   |-> df.index,
        columns |-> [k \in DOMAIN pos |-> df.columns[pos[k]]],
        data    |-> [k \in DOMAIN pos |-> df.data[pos[k]]]]

\* result[sorted(result.columns.values)]
SortColumns(df) == SelectColumns(df, SortLabels(df.columns))

\* ------------------------------------------------------------------------
\* State
\* ------------------------------------------------------------------------

VARIABLES
    entry,                  \* the operation that was called
    impl,                   \* "utils": utils/matrix.py, "main": __main__.py
    pc,                     \* position of the call
    counts,                 \* the input files of a run (tables, or rows to load)
    limit_inputs,           \* read_counts' limit_inputs, 0 standing for None
    argDfs,                 \* the list of tables as it was when passed
    callerDfs,              \* the list object the caller passed, as it is now
    dfs,                    \* the merger's local name dfs
    merged_dfs,             \* the round's output list of the recursive merger
    seq_result,             \* the name result of the sequential merger
    rec_result,             \* the name result of the recursive merger
    expected_result_shape,
    num_iterations_needed,  \* the total given to the progress bar
    pbar,                   \* number of pbar.update() calls
    seq_i,                  \* position of the sequential merger's for loop
    joins,                  \* merge() calls made by the recursive merger
    rounds,                 \* completed rounds of the recursive merger
    seq_status,             \* how the sequential merger ended
    rec_status,             \* how the recursive merger ended
    sequential_df,          \* the matrix the sequential merger returned
    recursive_df,           \* the matrix the recursive merger returned
    test_status,            \* how concordance_test ended
    merged,                 \* the matrix given to the coherence check
    sampled,                \* the row drawn from each table examined so far
    check_status,           \* how randomly_sample_coherence_check ended
    output,                 \* the matrix a run returned or wrote to its file
    run_status,             \* how the run ended
    remote,                 \* what the DNAnexus API answers for each file id
    cache,                  \* the DNAnexusFileCache object (args.cache)
    disk,                   \* the entries of the filesystem cache
    call,                   \* the last call of a dx.py getter and its outcome
    developer_mode,         \* args.developer_mode
    pointer,                \* path in the file at CACHE_POINTER_LOCATION
    folders,                \* the directories that exist
    filled,                 \* the directories that hold files or folders
    download_directory,     \* the directory given to download_files
    dir_status              \* how the choice of the directory ended

mergerVars == <<dfs, merged_dfs, seq_result, rec_result,
                expected_result_shape, num_iterations_needed, pbar, seq_i,
                joins, rounds, seq_status, rec_status, sequential_df,
                recursive_df>>

checkVars == <<merged, sampled, check_status>>

dxVars == <<remote, cache, disk, call>>

dirVars == <<developer_mode, pointer, folders, filled, download_directory,
             dir_status>>

envVars == <<dxVars, dirVars>>

vars == <<envVars, entry, impl, pc, counts, limit_inputs,
          argDfs, callerDfs, mergerVars,
          test_status, checkVars, output, run_status>>

\* ------------------------------------------------------------------------
\* The DNAnexus API, the metadata cache and the cache folder
\* ------------------------------------------------------------------------

\* None, where a path is expected.
NoPath == 0

\* Directory paths; tempfile.mkdtemp() makes one that does not exist yet.
Paths == {1, 2}

FileIds == {1, 2}

\* The dictionaries the API can answer with, told apart by a version.
Answers == {1, 2}

\* The two kinds of metadata, named as the attributes of DNAnexusFileCache.
Kinds == {"properties", "describes"}

\* DNAnexusFileCache(): self.properties = {}, self.describes = {}.
EmptyCache == [properties |-> <<>>, describes |-> <<>>]

NoCall == [fn |-> "none", dxid |-> 0, outcome |-> "none", value |-> 0, fresh |-> 0]

\* No getter of dx.py is under way and the API is not looked at.
IdleDx ==
    /\ remote = [k \in Kinds |-> [i \in FileIds |-> 1]]
    /\ cache = EmptyCache
    /\ disk = EmptyCache
    /\ call = NoCall

\* The download directory is not looked at.
IdleDir ==
    /\ developer_mode = FALSE
    /\ pointer = NoPath
    /\ folders = {}
    /\ filled = {}
    /\ download_directory = NoPath
    /\ dir_status = "none"

\* ------------------------------------------------------------------------
\* Inputs
\* ------------------------------------------------------------------------

\* Row indexes an input file may have (row keys unique within a table).
Indexes == {<<1, 2>>, <<2, 1>>, <<2, 3>>, <<1, 2, 3>>}

\* Label lists of n input files: distinct identifiers, or repeats of two.
LabelLists(n) ==
    {ls \in [1..n -> SampleNames] :
        NoDuplicates(ls) \/ Range(ls) \subseteq RepeatedNames}

\* Row indexes of n input files: at most two different ones in a list.
IndexLists(n, ixs) ==
    {ix \in [1..n -> ixs] : Cardinality(Range(ix)) <= 2}

\* l is a list of at most max tables with row indexes from ixs.
IsTableList(l, max, ixs) ==
    \E n \in 0..max : \E ls \in LabelLists(n) : \E ix \in IndexLists(n, ixs) :
        l = [i \in 1..n |-> Table(i, ls[i], ix[i])]

\* ------------------------------------------------------------------------
\* join_dataframes_sequentially
\* ------------------------------------------------------------------------

HasDuplicateColumns(df) == ~NoDuplicates(df.columns)

\* ExpectedShape reading the wrong axis of dfs[0].shape.
ExpectedShapeWrongAxis(l) == <<Shape(l[1])[2], Len(l)>>

\* (dfs[0].shape[0], num_dfs)
ExpectedShape(l) == <<Shape(l[1])[1], Len(l)>>

\* ShapeMatches comparing the column count alone.
ShapeMatchesColumnsOnly(df, expected) == Shape(df)[2] = expected[2]

\* result.shape == expected_result_shape
ShapeMatches(df, expected) == Shape(df) = expected

\* Where control goes when a merger returns its matrix.
AfterReturn(fn) ==
    CASE entry = "concordance_test" ->
            (IF fn = "sequential" THEN "rec_begin" ELSE "assert")
      [] entry \in {"recursive.run", "sequential.collect"} -> "dm_check"
      [] entry \in {"main.recursive", "main.sequential"} -> "main_write"
      [] OTHER -> "done"

SeqBegin ==
    /\ pc = "seq_begin"
    /\ dfs' = callerDfs
    /\ IF Len(callerDfs) <= 0
       THEN /\ seq_status' = "EmptyInput"
            /\ pc' = "raised"
            /\ UNCHANGED <<expected_result_shape, seq_result, seq_i>>
       ELSE /\ expected_result_shape' = ExpectedShape(callerDfs)
            /\ seq_result' = NoFrame
            /\ seq_i' = 1
            /\ seq_status' = "running"
            /\ pc' = "seq_loop"
    /\ UNCHANGED <<envVars, entry, impl, counts, limit_inputs,
                   argDfs, callerDfs, merged_dfs,
                   rec_result, num_iterations_needed, pbar, joins, rounds,
                   rec_status, sequential_df, recursive_df, test_status,
                   checkVars, output, run_status>>

\* One pass of the for loop.  A merge whose suffixed labels collide raises
\* MergeError in pandas >= 2.0 and yields duplicate columns before.
\* __main__.py drops the frame that merge() returns.
SeqStep ==
    /\ pc = "seq_loop"
    /\ seq_i <= Len(dfs)
    /\ \E strict \in BOOLEAN :
         LET joined == Merge(seq_result, dfs[seq_i])
         IN IF seq_result # NoFrame /\ strict /\ HasDuplicateColumns(joined)
            THEN /\ seq_status' = "MergeError"
                 /\ pc' = "raised"
                 /\ UNCHANGED <<seq_result, seq_i>>
            ELSE /\ seq_result' = IF seq_result = NoFrame THEN dfs[seq_i]
                                  ELSE IF impl = "utils" THEN joined
                                  ELSE seq_result
                 /\ seq_i' = seq_i + 1
                 /\ UNCHANGED <<seq_status, pc>>
    /\ UNCHANGED <<envVars, entry, impl, counts, limit_inputs,
                   argDfs, callerDfs, dfs, merged_dfs,
                   rec_result, expected_result_shape, num_iterations_needed,
                   pbar, joins, rounds, rec_status, sequential_df,
                   recursive_df, test_status, checkVars, output, run_status>>

SeqFinish ==
    /\ pc = "seq_loop"
    /\ seq_i > Len(dfs)
    /\ IF ~ShapeMatches(seq_result, expected_result_shape)
       THEN /\ seq_status' = "ShapeMismatch"
            /\ pc' = "raised"
            /\ UNCHANGED sequential_df
       ELSE /\ seq_status' = "returned"
            /\ sequential_df' = seq_result
            /\ pc' = AfterReturn("sequential")
    /\ UNCHANGED <<envVars, entry, impl, counts, limit_inputs,
                   argDfs, callerDfs, dfs, merged_dfs,
                   seq_result, rec_result, expected_result_shape,
                   num_iterations_needed, pbar, seq_i, joins, rounds,
                   rec_status, recursive_df, test_status, checkVars, output, run_status>>

\* ------------------------------------------------------------------------
\* join_dataframes_recursively
\* ------------------------------------------------------------------------

\* CeilHalf rounding down.
FloorHalf(n) == n \div 2

\* math.ceil(n / 2)
CeilHalf(n) == (n + 1) \div 2

\* The value the first while loop leaves in num_iterations_needed.
RECURSIVE IterationsNeeded(_)
IterationsNeeded(n) ==
    IF n > 1 THEN CeilHalf(n) + IterationsNeeded(CeilHalf(n)) ELSE 0

\* Aliased for a merger that makes no copy of the list it is given.
AliasedWithoutCopy == rounds = 0

\* utils/matrix.py works on dfs.copy(); in __main__.py dfs is the caller's
\* list until the first dfs = merged_dfs.
Aliased == impl = "main" /\ rounds = 0

\* RecBegin testing the number of tables after the work on them: an empty
\* list gets as far as the reduction and its end.
RecBeginLateEmptyCheck ==
    /\ pc = "rec_begin"
    /\ dfs' = callerDfs
    /\ expected_result_shape' =
          IF Len(callerDfs) <= 0 THEN <<0, 0>> ELSE ExpectedShape(callerDfs)
    /\ num_iterations_needed' = IterationsNeeded(Len(callerDfs))
    /\ rec_status' = "running"
    /\ IF Len(callerDfs) > 1
       THEN merged_dfs' = <<>> /\ pc' = "rec_inner"
       ELSE UNCHANGED merged_dfs /\ pc' = "rec_finish"
    /\ pbar' = 0
    /\ joins' = 0
    /\ rounds' = 0
    /\ UNCHANGED <<envVars, entry, impl, counts, limit_inputs,
                   argDfs, callerDfs, seq_result,
                   rec_result, seq_i, seq_status, sequential_df, recursive_df,
                   test_status, merged, sampled, check_status, output,
                   run_status>>

\* RecBegin entering the reduction loop for a single table as well.
RecBeginLoopsOnOne ==
    /\ pc = "rec_begin"
    /\ dfs' = callerDfs
    /\ IF Len(callerDfs) <= 0
       THEN /\ rec_status' = "EmptyInput"
            /\ pc' = "raised"
            /\ UNCHANGED <<expected_result_shape, num_iterations_needed,
                           merged_dfs>>
       ELSE /\ expected_result_shape' = ExpectedShape(callerDfs)
            /\ num_iterations_needed' = IterationsNeeded(Len(callerDfs))
            /\ rec_status' = "running"
            /\ merged_dfs' = <<>>
            /\ pc' = "rec_inner"
    /\ pbar' = 0
    /\ joins' = 0
    /\ rounds' = 0
    /\ UNCHANGED <<envVars, entry, impl, counts, limit_inputs,
                   argDfs, callerDfs, seq_result,
                   rec_result, seq_i, seq_status, sequential_df, recursive_df,
                   test_status, merged, sampled, check_status, output,
                   run_status>>

RecBegin ==
    /\ pc = "rec_begin"
    /\ dfs' = callerDfs
    /\ IF Len(callerDfs) <= 0
       THEN /\ rec_status' = "EmptyInput"
            /\ pc' = "raised"
            /\ UNCHANGED <<expected_result_shape, num_iterations_needed,
                           merged_dfs>>
       ELSE /\ expected_result_shape' = ExpectedShape(callerDfs)
            /\ num_iterations_needed' = IterationsNeeded(Len(callerDfs))
            /\ rec_status' = "running"
            /\ IF Len(callerDfs) > 1
               THEN merged_dfs' = <<>> /\ pc' = "rec_inner"
               ELSE UNCHANGED merged_dfs /\ pc' = "rec_finish"
    /\ pbar' = 0
    /\ joins' = 0
    /\ rounds' = 0
    /\ UNCHANGED <<envVars, entry, impl, counts, limit_inputs,
                   argDfs, callerDfs, seq_result,
                   rec_result, seq_i, seq_status, sequential_df, recursive_df,
                   test_status, checkVars, output, run_status>>

\* One pass of the inner loop that finds a mate: two pops and one merge.
RecPair ==
    /\ pc = "rec_inner"
    /\ Len(dfs) >= 2
    /\ \E strict \in BOOLEAN :
         LET one    == dfs[1]
             two    == dfs[2]
             joined == Merge(one, two)
         IN /\ dfs' = SubSeq(dfs, 3, Len(dfs))
            /\ joins' = joins + 1
            /\ IF strict /\ HasDuplicateColumns(joined)
               THEN /\ rec_status' = "MergeError"
                    /\ pc' = "raised"
                    /\ UNCHANGED <<merged_dfs, pbar>>
               ELSE /\ merged_dfs' = Append(merged_dfs, joined)
                    /\ pbar' = pbar + 1
                    /\ UNCHANGED <<rec_status, pc>>
    /\ callerDfs' = IF Aliased THEN dfs' ELSE callerDfs
    /\ UNCHANGED <<envVars, entry, impl, counts, limit_inputs,
                   argDfs, seq_result, rec_result,
                   expected_result_shape, num_iterations_needed, seq_i,
                   rounds, seq_status, sequential_df, recursive_df,
                   test_status, checkVars, output, run_status>>

\* RecCarry counting the pass-through as a join.
RecCarryCountedAsJoin ==
    /\ pc = "rec_inner"
    /\ Len(dfs) = 1
    /\ dfs' = <<>>
    /\ merged_dfs' = Append(merged_dfs, dfs[1])
    /\ pbar' = pbar + 1
    /\ joins' = joins + 1
    /\ callerDfs' = IF impl = "main" /\ rounds = 0 THEN dfs' ELSE callerDfs
    /\ UNCHANGED <<envVars, entry, impl, pc, counts, limit_inputs,
                   argDfs, seq_result, rec_result,
                   expected_result_shape, num_iterations_needed, seq_i,
                   rounds, seq_status, rec_status, sequential_df,
                   recursive_df, test_status, merged, sampled, check_status,
                   output, run_status>>

\* RecCarry putting the unpaired table at the head of the next round's list.
RecCarryToFront ==
    /\ pc = "rec_inner"
    /\ Len(dfs) = 1
    /\ dfs' = <<>>
    /\ merged_dfs' = <<dfs[1]>> \o merged_dfs
    /\ pbar' = pbar + 1
    /\ callerDfs' = IF impl = "main" /\ rounds = 0 THEN dfs' ELSE callerDfs
    /\ UNCHANGED <<envVars, entry, impl, pc, counts, limit_inputs,
                   argDfs, seq_result, rec_result,
                   expected_result_shape, num_iterations_needed, seq_i, joins,
                   rounds, seq_status, rec_status, sequential_df,
                   recursive_df, test_status, merged, sampled, check_status,
                   output, run_status>>

\* RecCarry losing the unpaired table.
RecCarryDropsTable ==
    /\ pc = "rec_inner"
    /\ Len(dfs) = 1
    /\ dfs' = <<>>
    /\ pbar' = pbar + 1
    /\ callerDfs' = IF impl = "main" /\ rounds = 0 THEN dfs' ELSE callerDfs
    /\ UNCHANGED <<envVars, entry, impl, pc, counts, limit_inputs,
                   argDfs, merged_dfs, seq_result,
                   rec_result, expected_result_shape, num_iterations_needed,
                   seq_i, joins, rounds, seq_status, rec_status,
                   sequential_df, recursive_df, test_status, merged, sampled,
                   check_status, output, run_status>>

\* One pass of the inner loop on the last table of an odd round.
RecCarry ==
    /\ pc = "rec_inner"
    /\ Len(dfs) = 1
    /\ dfs' = <<>>
    /\ merged_dfs' = Append(merged_dfs, dfs[1])
    /\ pbar' = pbar + 1
    /\ callerDfs' = IF Aliased THEN dfs' ELSE callerDfs
    /\ UNCHANGED <<envVars, entry, impl, pc, counts, limit_inputs,
                   argDfs, seq_result, rec_result,
                   expected_result_shape, num_iterations_needed, seq_i, joins,
                   rounds, seq_status, rec_status, sequential_df,
                   recursive_df, test_status, checkVars, output, run_status>>

\* dfs = merged_dfs, and the outer loop's test.
RecRoundEnd ==
    /\ pc = "rec_inner"
    /\ Len(dfs) = 0
    /\ dfs' = merged_dfs
    /\ rounds' = rounds + 1
    /\ IF Len(merged_dfs) > 1
       THEN merged_dfs' = <<>> /\ UNCHANGED pc
       ELSE UNCHANGED merged_dfs /\ pc' = "rec_finish"
    /\ UNCHANGED <<envVars, entry, impl, counts, limit_inputs,
                   argDfs, callerDfs, seq_result,
                   rec_result, expected_result_shape, num_iterations_needed,
                   pbar, seq_i, joins, seq_status, rec_status, sequential_df,
                   recursive_df, test_status, checkVars, output, run_status>>

\* SortedResult without the sort.
SortedResultUnsorted(df) == df

\* utils/matrix.py: result[sorted(result.columns.values)]
SortedResult(df) == SortColumns(df)

\* __main__.py: result.columns = sorted(result.columns), the data staying put.
RelabelledResult(df) ==
    [index |-> df.index, columns |-> SortLabels(df.columns), data |-> df.data]

RecFinish ==
    /\ pc = "rec_finish"
    /\ IF Len(dfs) # 1
       THEN /\ rec_status' = "MathIncorrect"
            /\ pc' = "raised"
            /\ UNCHANGED <<rec_result, recursive_df>>
       ELSE /\ rec_result' = IF impl = "utils" THEN SortedResult(dfs[1])
                             ELSE RelabelledResult(dfs[1])
            /\ IF ~ShapeMatches(rec_result', expected_result_shape)
               THEN /\ rec_status' = "ShapeMismatch"
                    /\ pc' = "raised"
                    /\ UNCHANGED recursive_df
               ELSE /\ rec_status' = "returned"
                    /\ recursive_df' = rec_result'
                    /\ pc' = AfterReturn("recursive")
    /\ UNCHANGED <<envVars, entry, impl, counts, limit_inputs,
                   argDfs, callerDfs, dfs, merged_dfs,
                   seq_result, expected_result_shape, num_iterations_needed,
                   pbar, seq_i, joins, rounds, seq_status, sequential_df,
                   test_status, checkVars, output, run_status>>

\* ------------------------------------------------------------------------
\* concordance_test
\* ------------------------------------------------------------------------

\* A comparison of two frames that does not look at the order of columns.
FrameEqualAnyColumnOrder(a, b) == SortColumns(a) = SortColumns(b)

\* pd.testing.assert_frame_equal: same index, same columns in the same
\* order, same cells (a missing cell equals a missing cell).
FrameEqual(a, b) == a = b

AssertConcordance ==
    /\ pc = "assert"
    /\ IF FrameEqual(sequential_df, recursive_df)
       THEN test_status' = "concordant" /\ pc' = "done"
       ELSE test_status' = "AssertionError" /\ pc' = "raised"
    /\ UNCHANGED <<envVars, entry, impl, counts, limit_inputs,
                   argDfs, callerDfs, mergerVars,
                   checkVars, output, run_status>>

\* ------------------------------------------------------------------------
\* Calls on a list of tables: the recursive merger alone, or the concordance
\* test, which calls the sequential merger and then the recursive merger.
\* ------------------------------------------------------------------------

Entries == {"recursive", "concordance_test"}

InitLocals ==
    /\ dfs = <<>>
    /\ merged_dfs = <<>>
    /\ seq_result = NoFrame
    /\ rec_result = NoFrame
    /\ expected_result_shape = <<0, 0>>
    /\ num_iterations_needed = 0
    /\ pbar = 0
    /\ seq_i = 0
    /\ joins = 0
    /\ rounds = 0
    /\ seq_status = "none"
    /\ rec_status = "none"
    /\ sequential_df = NoFrame
    /\ recursive_df = NoFrame
    /\ test_status = "none"
    /\ merged = NoFrame
    /\ sampled = <<>>
    /\ check_status = "none"
    /\ output = NoFrame
    /\ run_status = "none"

Init ==
    /\ IdleDx
    /\ IdleDir
    /\ entry \in Entries
    /\ impl = "utils"
    /\ counts = <<>>
    /\ limit_inputs = 0
    /\ IsTableList(callerDfs, MaxN, Indexes)
    /\ argDfs = callerDfs
    /\ pc = IF entry = "recursive" THEN "rec_begin" ELSE "seq_begin"
    /\ InitLocals

Next ==
    \/ SeqBegin
    \/ SeqStep
    \/ SeqFinish
    \/ RecBegin
    \/ RecPair
    \/ RecCarry
    \/ RecRoundEnd
    \/ RecFinish
    \/ AssertConcordance

Spec == Init /\ [][Next]_vars

\* ------------------------------------------------------------------------
\* randomly_sample_coherence_check(dataframes, merged), dataframes being
\* the caller's list of tables
\* ------------------------------------------------------------------------

\* merged[samplename][gene] finds a cell: one column carries the label and
\* the gene is a row of the matrix (otherwise the lookup raises KeyError).
LookupSucceeds(m, samplename, gene) ==
    /\ Cardinality({j \in DOMAIN m.columns : m.columns[j] = samplename}) = 1
    /\ gene \in Range(m.index)

\* ValueInMerged reading the first column whatever the label.
ValueInMergedFirstColumn(m, samplename, gene) == m.data[1][gene]

\* value_in_merged = merged[samplename][gene]
ValueInMerged(m, samplename, gene) ==
    m.data[CHOOSE j \in DOMAIN m.columns : m.columns[j] = samplename][gene]

\* One pass of the for loop: one row of the next table is drawn and its
\* value compared with the matrix.
CheckStep ==
    /\ pc = "check"
    /\ Len(sampled) < Len(callerDfs)
    /\ LET dataframe == callerDfs[Len(sampled) + 1]
       IN \E gene \in Range(dataframe.index) :
            LET samplename          == dataframe.columns[1]
                value_in_individual == dataframe.data[1][gene]
            IN /\ sampled' = Append(sampled, gene)
               /\ IF ~LookupSucceeds(merged, samplename, gene)
                  THEN check_status' = "KeyError" /\ pc' = "raised"
                  ELSE IF value_in_individual # ValueInMerged(merged, samplename, gene)
                  THEN check_status' = "CoherenceError" /\ pc' = "raised"
                  ELSE UNCHANGED <<check_status, pc>>
    /\ UNCHANGED <<envVars, entry, impl, counts, limit_inputs,
                   argDfs, callerDfs, mergerVars,
                   test_status, merged, output, run_status>>

\* The loop has examined every table: the check returns.
CheckEnd ==
    /\ pc = "check"
    /\ Len(sampled) = Len(callerDfs)
    /\ check_status' = "passed"
    /\ pc' = IF entry = "coherence_check" THEN "done" ELSE "dm_return"
    /\ UNCHANGED <<envVars, entry, impl, counts, limit_inputs,
                   argDfs, callerDfs, mergerVars,
                   test_status, merged, sampled, output, run_status>>

\* ------------------------------------------------------------------------
\* download_and_merge_counts (recursive.run, sequential.collect)
\* ------------------------------------------------------------------------

\* SameShapes looking at the last table alone.
SameShapesLastOnly(l) == Shape(l[Len(l)]) = Shape(l[1])

\* read_counts of utils/matrix.py: every table must have the first one's shape.
SameShapes(l) == \A i \in DOMAIN l : Shape(l[i]) = Shape(l[1])

\* Mode check, download and read_counts, up to the call of the merger.
DmReadCounts ==
    /\ pc = "dm_begin"
    /\ IF SameShapes(counts)
       THEN /\ callerDfs' = counts
            /\ argDfs' = counts
            /\ run_status' = "running"
            /\ pc' = IF entry = "recursive.run" THEN "rec_begin" ELSE "seq_begin"
       ELSE /\ run_status' = "LoadShapeMismatch"
            /\ pc' = "raised"
            /\ UNCHANGED <<callerDfs, argDfs>>
    /\ UNCHANGED <<envVars, entry, impl, counts, limit_inputs,
                   mergerVars, test_status, checkVars,
                   output>>

\* The merger has returned result: randomly_sample_coherence_check(dfs, result).
DmCallCheck ==
    /\ pc = "dm_check"
    /\ merged' = IF entry = "recursive.run" THEN recursive_df ELSE sequential_df
    /\ sampled' = <<>>
    /\ check_status' = "checking"
    /\ pc' = "check"
    /\ UNCHANGED <<envVars, entry, impl, counts, limit_inputs,
                   argDfs, callerDfs, mergerVars,
                   test_status, output, run_status>>

\* The check has passed: the download directory is dealt with and the
\* matrix is returned.
DmReturn ==
    /\ pc = "dm_return"
    /\ output' = merged
    /\ run_status' = "returned"
    /\ pc' = "done"
    /\ UNCHANGED <<envVars, entry, impl, counts, limit_inputs,
                   argDfs, callerDfs, mergerVars,
                   test_status, checkVars>>

\* ------------------------------------------------------------------------
\* run of __main__.py (subcommands recursive and sequential)
\* ------------------------------------------------------------------------

\* read_counts of __main__.py, up to args.func(dfs).
MainReadCounts ==
    /\ pc = "main_begin"
    /\ callerDfs' = counts
    /\ argDfs' = counts
    /\ run_status' = "running"
    /\ pc' = IF entry = "main.recursive" THEN "rec_begin" ELSE "seq_begin"
    /\ UNCHANGED <<envVars, entry, impl, counts, limit_inputs,
                   mergerVars, test_status, checkVars,
                   output>>

\* The merger has returned result: it is written to the output file.
MainWrite ==
    /\ pc = "main_write"
    /\ output' = IF entry = "main.recursive" THEN recursive_df ELSE sequential_df
    /\ run_status' = "written"
    /\ pc' = "done"
    /\ UNCHANGED <<envVars, entry, impl, counts, limit_inputs,
                   argDfs, callerDfs, mergerVars,
                   test_status, checkVars>>

\* Row indexes of the input files of a run.
RunIndexes == {<<1, 2>>, <<2, 1>>, <<1, 2, 3>>}

RunEntries ==
    {"recursive.run", "sequential.collect", "main.recursive", "main.sequential"}

InitRun ==
    /\ IdleDx
    /\ IdleDir
    /\ entry \in RunEntries
    /\ impl = IF entry \in {"main.recursive", "main.sequential"} THEN "main" ELSE "utils"
    /\ IsTableList(counts, MaxN, RunIndexes)
    /\ counts # <<>>
    /\ limit_inputs = 0
    /\ callerDfs = <<>>
    /\ argDfs = <<>>
    /\ pc = IF impl = "main" THEN "main_begin" ELSE "dm_begin"
    /\ InitLocals

NextRun ==
    \/ DmReadCounts
    \/ MainReadCounts
    \/ SeqBegin
    \/ SeqStep
    \/ SeqFinish
    \/ RecBegin
    \/ RecPair
    \/ RecCarry
    \/ RecRoundEnd
    \/ RecFinish
    \/ DmCallCheck
    \/ CheckStep
    \/ CheckEnd
    \/ DmReturn
    \/ MainWrite

SpecRun == InitRun /\ [][NextRun]_vars

\* ------------------------------------------------------------------------
\* randomly_sample_coherence_check called on its own: tables with distinct
\* labels and a matrix holding one cell per (row key, label), some of the
\* cells not holding the table's value
\* ------------------------------------------------------------------------

\* The tables of a call: n tables labelled a, b, ...; either all of them have
\* the rows g1, g2, or the first one has g2, g3 instead.
CheckTables(n, shifted) ==
    [i \in 1..n |-> Table(i, <<96 + i>>,
                          IF shifted /\ i = 1 THEN <<2, 3>> ELSE <<1, 2>>)]

\* The cells of the matrix that come from a table: <<table, row key>>.
TableCells(tables) ==
    {<<i, g>> : i \in DOMAIN tables, g \in Genes} \cap
    {c \in (DOMAIN tables) \X Genes : c[2] \in Range(tables[c[1]].index)}

\* The matrix of the tables in which the cells of wrong hold another value.
MatrixWithWrongCells(tables, wrong) ==
    LET idx == SortKeys(UNION {Range(tables[i].index) : i \in DOMAIN tables})
    IN [index   |-> idx,
        columns |-> [i \in DOMAIN tables |-> tables[i].columns[1]],
        data    |-> [i \in DOMAIN tables |->
                       [g \in Range(idx) |->
                          IF <<i, g>> \in wrong
                          THEN tables[i].data[1][g] + 1
                          ELSE Realign(tables[i].data[1], idx)[g]]]]

InitCheck ==
    /\ IdleDx
    /\ IdleDir
    /\ entry = "coherence_check"
    /\ impl = "utils"
    /\ counts = <<>>
    /\ limit_inputs = 0
    /\ \E n \in 1..MaxN : \E shifted \in BOOLEAN :
         /\ callerDfs = CheckTables(n, shifted)
         /\ \E wrong \in SUBSET TableCells(CheckTables(n, shifted)) :
              merged = MatrixWithWrongCells(CheckTables(n, shifted), wrong)
    /\ argDfs = callerDfs
    /\ pc = "check"
    /\ dfs = <<>>
    /\ merged_dfs = <<>>
    /\ seq_result = NoFrame
    /\ rec_result = NoFrame
    /\ expected_result_shape = <<0, 0>>
    /\ num_iterations_needed = 0
    /\ pbar = 0
    /\ seq_i = 0
    /\ joins = 0
    /\ rounds = 0
    /\ seq_status = "none"
    /\ rec_status = "none"
    /\ sequential_df = NoFrame
    /\ recursive_df = NoFrame
    /\ test_status = "none"
    /\ sampled = <<>>
    /\ check_status = "checking"
    /\ output = NoFrame
    /\ run_status = "none"

NextCheck ==
    \/ CheckStep
    \/ CheckEnd

SpecCheck == InitCheck /\ [][NextCheck]_vars

\* ------------------------------------------------------------------------
\* A call of join_dataframes_recursively of utils/matrix.py that runs on:
\* the interpreter goes on executing the statements of the function, which
\* is all the termination of the reduction loop needs.
\* ------------------------------------------------------------------------

\* The sample names of n tables: a, b, ... in order, or names taken among
\* the repeated ones.
LiveLabelLists(n) ==
    {[i \in 1..n |-> <<96 + i>>]} \cup [1..n -> RepeatedNames]

\* The tables have the rows g1, g2; the last one may have g2, g3 instead.
InitLive ==
    /\ IdleDx
    /\ IdleDir
    /\ entry = "recursive"
    /\ impl = "utils"
    /\ counts = <<>>
    /\ limit_inputs = 0
    /\ \E n \in 0..MaxN : \E ls \in LiveLabelLists(n) : \E shifted \in BOOLEAN :
         callerDfs = [i \in 1..n |->
                        Table(i, ls[i],
                              IF shifted /\ i = n THEN <<2, 3>> ELSE <<1, 2>>)]
    /\ argDfs = callerDfs
    /\ pc = "rec_begin"
    /\ InitLocals

NextRec ==
    \/ RecBegin
    \/ RecPair
    \/ RecCarry
    \/ RecRoundEnd
    \/ RecFinish

\* The statements of the function up to the end of its reduction loop.
UpToLoopEnd ==
    \/ RecBegin
    \/ RecPair
    \/ RecCarry
    \/ RecRoundEnd

SpecLive == InitLive /\ [][NextRec]_vars /\ WF_vars(UpToLoopEnd)

\* ------------------------------------------------------------------------
\* read_counts(counts, limit_inputs) of utils/matrix.py called on its own.
\* Here counts is the list of (sample_name, filename), the file being given
\* by its rows <<gene, count>> in file order.
\* ------------------------------------------------------------------------

\* counts[:limit_inputs] when limit_inputs is set.
Truncated(l, limit) ==
    IF limit # 0 THEN SubSeq(l, 1, IF limit < Len(l) THEN limit ELSE Len(l))
    ELSE l

\* pd.read_csv(filename, sep="\t", header=None), the columns named
\* "Gene Name" and sample_name, "Gene Name" made the index.
FrameOfFile(f) ==
    [index   |-> [k \in DOMAIN f.rows |-> f.rows[k][1]],
     columns |-> <<f.sample_name>>,
     data    |-> << [g \in {f.rows[k][1] : k \in DOMAIN f.rows} |->
                       f.rows[CHOOSE k \in DOMAIN f.rows : f.rows[k][1] = g][2]] >>]

\* One pass of the reading loop.
LoadFile ==
    /\ pc = "load_loop"
    /\ Len(dfs) < Len(Truncated(counts, limit_inputs))
    /\ dfs' = Append(dfs, FrameOfFile(Truncated(counts, limit_inputs)[Len(dfs) + 1]))
    /\ UNCHANGED <<envVars, entry, impl, pc, counts, limit_inputs, argDfs, callerDfs,
                   merged_dfs, seq_result, rec_result, expected_result_shape,
                   num_iterations_needed, pbar, seq_i, joins, rounds,
                   seq_status, rec_status, sequential_df, recursive_df,
                   test_status, checkVars, output, run_status>>

\* expected_shape = dfs[0].shape, the comparison of every table with it,
\* and the return.
LoadCheck ==
    /\ pc = "load_loop"
    /\ Len(dfs) = Len(Truncated(counts, limit_inputs))
    /\ IF dfs = <<>>
       THEN /\ run_status' = "IndexError"
            /\ pc' = "raised"
            /\ UNCHANGED callerDfs
       ELSE IF ~SameShapes(dfs)
       THEN /\ run_status' = "LoadShapeMismatch"
            /\ pc' = "raised"
            /\ UNCHANGED callerDfs
       ELSE /\ run_status' = "loaded"
            /\ callerDfs' = dfs
            /\ pc' = "done"
    /\ UNCHANGED <<envVars, entry, impl, counts, limit_inputs, argDfs, mergerVars,
                   test_status, checkVars, output>>

\* The files of a call: n of them, with the rows of table i in the order
\* of an index of RunIndexes.
IsFileList(l, max) ==
    \E n \in 0..max : \E ls \in LiveLabelLists(n) : \E ix \in IndexLists(n, RunIndexes) :
        l = [i \in 1..n |->
               [sample_name |-> ls[i],
                rows |-> [k \in DOMAIN ix[i] |-> <<ix[i][k], Count(i, ix[i][k])>>]]]

InitLoad ==
    /\ IdleDx
    /\ IdleDir
    /\ entry = "read_counts"
    /\ impl = "utils"
    /\ IsFileList(counts, MaxN)
    /\ limit_inputs \in 0..MaxN
    /\ callerDfs = <<>>
    /\ argDfs = <<>>
    /\ pc = "load_loop"
    /\ InitLocals

NextLoad ==
    \/ LoadFile
    \/ LoadCheck

SpecLoad == InitLoad /\ [][NextLoad]_vars

\* ------------------------------------------------------------------------
\* get_dnanexus_properties and get_dnanexus_describe of utils/dx.py, called
\* any number of times on one DNAnexusFileCache, while the owner of the
\* files may change their metadata on DNAnexus.
\* ------------------------------------------------------------------------

\* d[key] = value on a dict.
Put(d, key, value) ==
    [i \in (DOMAIN d) \cup {key} |-> IF i = key THEN value ELSE d[i]]

\* How get_cache_folder() ends: None without a pointer file, an error when
\* the folder the pointer names does not exist, the folder otherwise.
CacheFolderOutcome ==
    IF pointer = NoPath THEN "None"
    ELSE IF pointer \notin folders THEN "CacheFolderMissing"
    ELSE "found"

\* cache_properties_on_filesystem / cache_describes_on_filesystem: the
\* subfolder is get_cache_folder() / kind, which is a TypeError on None.
FilesystemWriteOutcome ==
    CASE CacheFolderOutcome = "None" -> "TypeError"
      [] CacheFolderOutcome = "CacheFolderMissing" -> "CacheFolderMissing"
      [] OTHER -> "written"

\* The value a getter returns on a hit: cache.properties.get(dxid).
ServedOnHit(kind, dxid) == cache[kind][dxid]

\* One call of the getter of a kind, with its enable_filesystem_caching.
Getter(kind, dxid, enable_filesystem_caching) ==
    /\ pc = "dx_idle"
    /\ IF dxid \in DOMAIN cache[kind]
       THEN /\ call' = [fn |-> kind, dxid |-> dxid, outcome |-> "hit",
                        value |-> ServedOnHit(kind, dxid),
                        fresh |-> remote[kind][dxid]]
            /\ UNCHANGED <<cache, disk, filled>>
       ELSE LET fetched == remote[kind][dxid]
                written == enable_filesystem_caching
                           /\ FilesystemWriteOutcome = "written"
                failed  == enable_filesystem_caching
                           /\ FilesystemWriteOutcome # "written"
            IN /\ cache' = [cache EXCEPT ![kind] = Put(@, dxid, fetched)]
               /\ disk' = IF written
                          THEN [disk EXCEPT ![kind] = Put(@, dxid, fetched)]
                          ELSE disk
               /\ filled' = IF written THEN filled \cup {pointer} ELSE filled
               /\ call' = [fn |-> kind, dxid |-> dxid,
                           outcome |-> IF failed THEN FilesystemWriteOutcome
                                       ELSE "miss",
                           value |-> IF failed THEN 0 ELSE fetched,
                           fresh |-> fetched]
    /\ UNCHANGED <<remote, developer_mode, pointer, folders,
                   download_directory, dir_status,
                   entry, impl, pc, counts, limit_inputs,
                   argDfs, callerDfs, mergerVars, test_status, checkVars,
                   output, run_status>>

GetDnanexusProperties ==
    \E dxid \in FileIds : \E enable_filesystem_caching \in BOOLEAN :
        Getter("properties", dxid, enable_filesystem_caching)

GetDnanexusDescribe ==
    \E dxid \in FileIds : \E enable_filesystem_caching \in BOOLEAN :
        Getter("describes", dxid, enable_filesystem_caching)

\* DNAnexusFileCache.load_from_filesystem, when the cache folder is found.
LoadFromFilesystem ==
    /\ pc = "dx_idle"
    /\ CacheFolderOutcome = "found"
    /\ cache' = [properties |-> disk.properties, describes |-> disk.describes]
    /\ call' = NoCall
    /\ UNCHANGED <<remote, disk, dirVars, entry, impl, pc, counts,
                   limit_inputs, argDfs, callerDfs, mergerVars, test_status,
                   checkVars, output, run_status>>

\* The metadata of a file is changed on DNAnexus (properties set, the file
\* renamed or moved): the API answers with another dictionary from then on.
RemoteChange ==
    /\ pc = "dx_idle"
    /\ \E kind \in Kinds : \E dxid \in FileIds :
         /\ remote[kind][dxid] = 1
         /\ remote' = [remote EXCEPT ![kind][dxid] = 2]
    /\ UNCHANGED <<cache, disk, call, dirVars, entry, impl, pc, counts,
                   limit_inputs, argDfs, callerDfs, mergerVars, test_status,
                   checkVars, output, run_status>>

\* A process starts with an empty DNAnexusFileCache; the cache folder is
\* absent, present, or named by the pointer but missing.
InitDx ==
    /\ remote = [k \in Kinds |-> [i \in FileIds |-> 1]]
    /\ cache = EmptyCache
    /\ disk = EmptyCache
    /\ call = NoCall
    /\ developer_mode \in BOOLEAN
    /\ \E pf \in {<<NoPath, {}>>, <<1, {1}>>, <<1, {}>>} :
         pointer = pf[1] /\ folders = pf[2]
    /\ filled \in SUBSET folders
    /\ download_directory = NoPath
    /\ dir_status = "none"
    /\ entry = "dx"
    /\ impl = "utils"
    /\ pc = "dx_idle"
    /\ counts = <<>>
    /\ limit_inputs = 0
    /\ callerDfs = <<>>
    /\ argDfs = <<>>
    /\ InitLocals

NextDx ==
    \/ GetDnanexusProperties
    \/ GetDnanexusDescribe
    \/ LoadFromFilesystem
    \/ RemoteChange

SpecDx == InitDx /\ [][NextDx]_vars

\* ------------------------------------------------------------------------
\* Specification SpecDir: the download directory
\*
\* The first statements of download_and_merge_counts (utils/matrix.py) and of
\* the concordance-test run (concordance.py), which choose the directory
\* given to download_files, over any number of runs on one machine.
\* ------------------------------------------------------------------------

DirEntries == {"download_and_merge_counts", "concordance.run"}

dirRest == <<dxVars, impl, counts, limit_inputs, argDfs, callerDfs,
             mergerVars, test_status, checkVars, output, run_status>>

\* A process is started with its arguments; download_directory is None.
\* (A run is started only while tempfile.mkdtemp() has a path left.)
StartRun ==
    /\ pc \in {"dir_idle", "dir_done", "dir_raised"}
    /\ Paths \ folders # {}
    /\ entry' \in DirEntries
    /\ developer_mode' \in BOOLEAN
    /\ download_directory' = NoPath
    /\ dir_status' = "none"
    /\ pc' = "dir_choose"
    /\ UNCHANGED <<pointer, folders, filled, dirRest>>

\* Developer mode, left operand of `or`: get_cache_folder().
GetCacheFolder ==
    /\ pc = "dir_choose"
    /\ developer_mode
    /\ CASE CacheFolderOutcome = "found" ->
              /\ download_directory' = pointer
              /\ pc' = "dir_download"
              /\ UNCHANGED dir_status
         [] CacheFolderOutcome = "None" ->
              /\ pc' = "dir_create"
              /\ UNCHANGED <<download_directory, dir_status>>
         [] OTHER ->
              /\ dir_status' = "CacheFolderMissing"
              /\ pc' = "dir_raised"
              /\ UNCHANGED download_directory
    /\ UNCHANGED <<entry, developer_mode, pointer, folders, filled, dirRest>>

\* Developer mode, right operand of `or`: create_new_cache_folder() makes a
\* directory, writes its path to the pointer file and returns None, which
\* is the value of the `or` expression.
CreateNewCacheFolder ==
    /\ pc = "dir_create"
    /\ CASE CacheFolderOutcome = "found" ->
              /\ dir_status' = "RefusingToOverwrite"
              /\ pc' = "dir_raised"
              /\ UNCHANGED <<pointer, folders, download_directory>>
         [] CacheFolderOutcome = "CacheFolderMissing" ->
              /\ dir_status' = "CacheFolderMissing"
              /\ pc' = "dir_raised"
              /\ UNCHANGED <<pointer, folders, download_directory>>
         [] OTHER ->
              \E new_cache_loc \in Paths \ folders :
                  /\ folders' = folders \cup {new_cache_loc}
                  /\ pointer' = new_cache_loc
                  /\ download_directory' = NoPath
                  /\ pc' = "dir_download"
                  /\ UNCHANGED dir_status
    /\ UNCHANGED <<entry, developer_mode, filled, dirRest>>

\* Without developer mode: download_directory = tempfile.mkdtemp().
TempDirectory ==
    /\ pc = "dir_choose"
    /\ ~developer_mode
    /\ \E made \in Paths \ folders :
         /\ folders' = folders \cup {made}
         /\ download_directory' = made
    /\ pc' = "dir_download"
    /\ UNCHANGED <<entry, developer_mode, pointer, filled, dir_status, dirRest>>

\* download_files(args.dxids, download_directory, ...): os.path.exists(None)
\* is a TypeError; a directory that does not exist is reported.
DownloadFiles ==
    /\ pc = "dir_download"
    /\ dir_status' = CASE download_directory = NoPath -> "TypeError"
                       [] download_directory \notin folders ->
                              "DownloadDirectoryNotFound"
                       [] OTHER -> "downloaded"
    /\ pc' = IF dir_status' = "downloaded" THEN "dir_merged" ELSE "dir_raised"
    /\ filled' = IF dir_status' = "downloaded"
                 THEN filled \cup {download_directory}
                 ELSE filled
    /\ UNCHANGED <<entry, developer_mode, pointer, folders,
                   download_directory, dirRest>>

\* The rest of a run that goes through: download_and_merge_counts deletes
\* the download directory unless in developer mode; the concordance-test
\* run leaves it.
FinishRun ==
    /\ pc = "dir_merged"
    /\ folders' = IF entry = "download_and_merge_counts" /\ ~developer_mode
                  THEN folders \ {download_directory}
                  ELSE folders
    /\ filled' = filled \cap folders'
    /\ pc' = "dir_done"
    /\ UNCHANGED <<entry, developer_mode, pointer, download_directory,
                   dir_status, dirRest>>

\* Between two runs a directory under the temporary directory is deleted
\* by its owner or by the system.
FolderRemoved ==
    /\ pc \in {"dir_idle", "dir_done", "dir_raised"}
    /\ \E gone \in folders :
         /\ folders' = folders \ {gone}
         /\ filled' = filled \ {gone}
    /\ UNCHANGED <<entry, developer_mode, pointer, download_directory,
                   dir_status, pc, dirRest>>

\* clean_cache(), called between two runs.  get_cache_folder() raises when
\* the folder the pointer names is missing; os.removedirs() raises OSError
\* on a directory that is not empty (the directories above the cache folder
\* are pruned only while empty, which the temporary directory is not).
\* Only a call that got past both removes the pointer file.
CleanCache ==
    /\ pc \in {"dir_idle", "dir_done", "dir_raised"}
    /\ entry' = "clean_cache"
    /\ CASE CacheFolderOutcome = "CacheFolderMissing" ->
              /\ dir_status' = "CacheFolderMissing"
              /\ pc' = "dir_raised"
              /\ UNCHANGED <<pointer, folders>>
         [] CacheFolderOutcome = "found" /\ pointer \in filled ->
              /\ dir_status' = "OSError"
              /\ pc' = "dir_raised"
              /\ UNCHANGED <<pointer, folders>>
         [] OTHER ->
              /\ folders' = folders \ {pointer}
              /\ pointer' = NoPath
              /\ dir_status' = "cleaned"
              /\ pc' = "dir_done"
    /\ UNCHANGED <<developer_mode, filled, download_directory, dirRest>>

\* No run was made yet on the machine: no pointer file, no directory.
InitDir ==
    /\ IdleDx
    /\ IdleDir
    /\ entry \in DirEntries
    /\ impl = "utils"
    /\ pc = "dir_idle"
    /\ counts = <<>>
    /\ limit_inputs = 0
    /\ callerDfs = <<>>
    /\ argDfs = <<>>
    /\ InitLocals

NextDir ==
    \/ StartRun
    \/ GetCacheFolder
    \/ CreateNewCacheFolder
    \/ TempDirectory
    \/ DownloadFiles
    \/ FinishRun
    \/ FolderRemoved
    \/ CleanCache

SpecDir == InitDir /\ [][NextDir]_vars

\* ------------------------------------------------------------------------
\* Vocabulary of the properties
\* ------------------------------------------------------------------------

\* Number of tables the call was given.
NumTables == Len(argDfs)

\* The sample identifier of a one-column input table.
LabelOf(t) == t.columns[1]

InputLabels == [i \in DOMAIN argDfs |-> LabelOf(argDfs[i])]

DistinctLabels == NoDuplicates(InputLabels)

SharedKeySet == \A i \in DOMAIN argDfs : Range(argDfs[i].index) = Range(argDfs[1].index)

\* Matrix m has exactly one cell at row g, column labelled l.
HasCell(m, g, l) ==
    /\ g \in Range(m.index)
    /\ Cardinality({j \in DOMAIN m.columns : m.columns[j] = l}) = 1

CellAt(m, g, l) == m.data[CHOOSE j \in DOMAIN m.columns : m.columns[j] = l][g]

\* Every (row key, value) of every table is in m under the table's label.
RoundTrip(tables, m) ==
    \A i \in DOMAIN tables : \A g \in Range(tables[i].index) :
        /\ HasCell(m, g, LabelOf(tables[i]))
        /\ CellAt(m, g, LabelOf(tables[i])) = tables[i].data[1][g]

HasMissingCell(m) == \E j \in DOMAIN m.data : \E g \in DOMAIN m.data[j] : m.data[j][g] = NaN

MergerErrors == {"EmptyInput", "ShapeMismatch", "MathIncorrect", "MergeError"}

\* The reduction loop of the recursive merger has run to its end.
RecLoopEnded == rec_status \in {"returned", "ShapeMismatch", "MathIncorrect"}

SeqLoopEnded == seq_status \in {"returned", "ShapeMismatch"}

\* The data columns of df labelled l, in column order.
ColumnsLabelled(df, l) ==
    LET pos == PositionsOf(df.columns, l)
    IN [k \in DOMAIN pos |-> df.data[pos[k]]]

\* Equality of two matrices up to the order of rows and columns.
SameUpToOrder(a, b) ==
    /\ Range(a.index) = Range(b.index)
    /\ Range(a.columns) = Range(b.columns)
    /\ \A l \in Range(a.columns) : ColumnsLabelled(a, l) = ColumnsLabelled(b, l)

\* ------------------------------------------------------------------------
\* C1  Value round trip
\* ------------------------------------------------------------------------

\* C1: for a non-empty list of tables with distinct sample labels (and unique
\* row keys), whenever a merger of utils/matrix.py returns a matrix, every
\* (row key k, value v) of every input table T is found in the matrix at
\* row k, column labelled with T's sample identifier.
C1_ValueRoundTrip ==
    DistinctLabels =>
        /\ seq_status = "returned" => RoundTrip(argDfs, sequential_df)
        /\ rec_status = "returned" => RoundTrip(argDfs, recursive_df)

\* Both mergers returned on four tables with unsorted distinct labels, and
\* the matrix holds missing cells.
C1_Witness ==
    /\ entry = "concordance_test"
    /\ NumTables = 4
    /\ DistinctLabels
    /\ ~IsSortedLabels(InputLabels)
    /\ seq_status = "returned"
    /\ rec_status = "returned"
    /\ HasMissingCell(recursive_df)

\* ------------------------------------------------------------------------
\* C2  Shape
\* ------------------------------------------------------------------------

\* C2: for N >= 1 tables with distinct labels that share one row-key set of
\* size R, neither merger raises, and the matrix each returns has R rows and
\* N columns.
C2_Shape ==
    (NumTables >= 1 /\ DistinctLabels /\ SharedKeySet) =>
        /\ seq_status \notin MergerErrors
        /\ rec_status \notin MergerErrors
        /\ seq_status = "returned" =>
              Shape(sequential_df) = <<Cardinality(Range(argDfs[1].index)), NumTables>>
        /\ rec_status = "returned" =>
              Shape(recursive_df) = <<Cardinality(Range(argDfs[1].index)), NumTables>>

\* Four tables with the same two row keys, not all in the same order.
C2_Witness ==
    /\ NumTables = 4
    /\ DistinctLabels
    /\ SharedKeySet
    /\ \E i \in DOMAIN argDfs : argDfs[i].index # argDfs[1].index
    /\ seq_status = "returned"
    /\ rec_status = "returned"
    /\ Shape(recursive_df) = <<2, 4>>

\* ------------------------------------------------------------------------
\* C3  Columns of the recursive merger
\* ------------------------------------------------------------------------

ColumnsSortedAndComplete(m) ==
    /\ IsSortedLabels(m.columns)
    /\ NoDuplicates(m.columns)
    /\ Range(m.columns) = Range(InputLabels)

\* C3 as stated: for every input on which join_dataframes_recursively
\* returns, the column labels are ascending, without duplicates, and are
\* exactly the input tables' sample identifiers.
C3_AsStated ==
    rec_status = "returned" => ColumnsSortedAndComplete(recursive_df)

\* C3 amended: the same, for inputs whose sample identifiers are pairwise
\* distinct.
C3_SortedColumns ==
    (rec_status = "returned" /\ DistinctLabels)
        => ColumnsSortedAndComplete(recursive_df)

\* The recursive merger returned on four tables whose distinct labels came
\* in another order than the sorted one.
C3_Witness ==
    /\ rec_status = "returned"
    /\ NumTables = 4
    /\ DistinctLabels
    /\ ~IsSortedLabels(InputLabels)
    /\ recursive_df.columns # InputLabels

\* ------------------------------------------------------------------------
\* C4  Number of pairwise joins
\* ------------------------------------------------------------------------

\* C4: when the reduction loop of join_dataframes_recursively has run to its
\* end on N >= 1 tables, it has made exactly N - 1 merge() calls; passing an
\* unpaired table through is not one of them.
C4_JoinCount ==
    /\ (pc = "rec_finish" \/ RecLoopEnded) => joins = NumTables - 1
    /\ rec_status = "running" => joins <= NumTables - 1

\* Three tables: two joins and one pass-through.
C4_Witness ==
    /\ rec_status = "returned"
    /\ NumTables = 3
    /\ joins = 2
    /\ pbar = 3

\* ------------------------------------------------------------------------
\* C5  The computed number of iterations
\* ------------------------------------------------------------------------

\* C5 as stated: the value join_dataframes_recursively computes before the
\* reduction is N - 1, and the merger returns only if that value equals the
\* number of joins it made.
C5_AsStated ==
    /\ rec_status \in {"running", "returned", "ShapeMismatch"}
          => num_iterations_needed = NumTables - 1
    /\ rec_status = "returned" => num_iterations_needed = joins

\* C5 amended: the value computed is the number of passes of the inner loop
\* (joins plus pass-throughs of an unpaired table): it is at least N - 1, it
\* is the number of progress-bar updates made when the loop ends, nothing
\* compares it with the joins made, and the "Math was incorrect" error,
\* which guards the number of tables left, is never raised.
C5_IterationTotal ==
    /\ rec_status \in {"running", "returned", "ShapeMismatch"}
          => /\ num_iterations_needed >= NumTables - 1
             /\ pbar <= num_iterations_needed
    /\ (pc = "rec_finish" \/ RecLoopEnded) => pbar = num_iterations_needed
    /\ rec_status # "MathIncorrect"

\* The merger returned although the computed value is not N - 1.
C5_Witness ==
    /\ rec_status = "returned"
    /\ num_iterations_needed # NumTables - 1
    /\ num_iterations_needed # joins
    /\ pbar = num_iterations_needed

\* ------------------------------------------------------------------------
\* C6  Concordance of the two mergers
\* ------------------------------------------------------------------------

BothReturned == seq_status = "returned" /\ rec_status = "returned"

\* Each column of m has a label of its own, so that a row key and a label
\* name one cell.
UniquelyLabelled(m) == NoDuplicates(m.columns)

\* C6 as stated: whenever both mergers return on a non-empty list, their
\* matrices (taken here with uniquely labelled columns) have the same row
\* keys, the same column labels and the same cells.
C6_AsStated ==
    (BothReturned /\ UniquelyLabelled(sequential_df) /\ UniquelyLabelled(recursive_df))
        => SameUpToOrder(sequential_df, recursive_df)

\* C6 amended: the same, for lists whose sample identifiers are pairwise
\* distinct.
C6_Concordance ==
    (BothReturned /\ DistinctLabels)
        => SameUpToOrder(sequential_df, recursive_df)

\* Both mergers returned on four tables with distinct labels; the matrices
\* differ in column order and hold missing cells.
C6_Witness ==
    /\ BothReturned
    /\ NumTables = 4
    /\ DistinctLabels
    /\ sequential_df.columns # recursive_df.columns
    /\ HasMissingCell(sequential_df)
    /\ pc = "assert"

\* ------------------------------------------------------------------------
\* C7  Missing keys
\* ------------------------------------------------------------------------

\* Table A ("a") with row keys {g1, g2} and table B ("b") with {g2, g3}.
ScenarioAB == <<Table(1, <<97>>, <<1, 2>>), Table(2, <<98>>, <<2, 3>>)>>

\* Rows g1, g2, g3; (g1, B) and (g3, A) missing; the other cells as read.
MissingKeyMatrix(m) ==
    /\ Range(m.index) = {1, 2, 3}
    /\ Range(m.columns) = {<<97>>, <<98>>}
    /\ \A g \in {1, 2, 3} : HasCell(m, g, <<97>>) /\ HasCell(m, g, <<98>>)
    /\ CellAt(m, 1, <<98>>) = NaN
    /\ CellAt(m, 3, <<97>>) = NaN
    /\ CellAt(m, 1, <<97>>) = Count(1, 1)
    /\ CellAt(m, 2, <<97>>) = Count(1, 2)
    /\ CellAt(m, 2, <<98>>) = Count(2, 2)
    /\ CellAt(m, 3, <<98>>) = Count(2, 3)

\* C7 as stated: on A and B each merger returns the matrix with rows
\* g1, g2, g3 and the two missing cells.
C7_AsStated ==
    argDfs = ScenarioAB =>
        /\ SeqLoopEnded => (seq_status = "returned" /\ MissingKeyMatrix(sequential_df))
        /\ RecLoopEnded => (rec_status = "returned" /\ MissingKeyMatrix(recursive_df))

\* C7 amended: on A and B each merger computes that matrix as its result,
\* and, its 3 rows not being table A's 2, raises the shape error and returns
\* nothing.
C7_MissingKeys ==
    argDfs = ScenarioAB =>
        /\ seq_status # "returned"
        /\ rec_status # "returned"
        /\ SeqLoopEnded => /\ seq_status = "ShapeMismatch"
                           /\ MissingKeyMatrix(seq_result)
                           /\ sequential_df = NoFrame
        /\ RecLoopEnded => /\ rec_status = "ShapeMismatch"
                           /\ MissingKeyMatrix(rec_result)
                           /\ recursive_df = NoFrame

\* The recursive merger has raised the shape error on A and B.
C7_Witness ==
    /\ argDfs = ScenarioAB
    /\ rec_status = "ShapeMismatch"
    /\ MissingKeyMatrix(rec_result)

\* ------------------------------------------------------------------------
\* C8  The shape error
\* ------------------------------------------------------------------------

\* (row count of table[0], N)
ClaimedShape == <<Len(argDfs[1].index), NumTables>>

\* C8: a merger whose loop has ended raises the shape error exactly when
\* the shape of its result is not (row count of table[0], N); when it
\* raises, no matrix is returned or delivered; when it does not, it returns
\* its result.
C8_ShapeError ==
    /\ SeqLoopEnded =>
          /\ seq_status = "ShapeMismatch" <=> Shape(seq_result) # ClaimedShape
          /\ seq_status = "ShapeMismatch" =>
                (sequential_df = NoFrame /\ output = NoFrame /\ pc = "raised")
          /\ seq_status = "returned" => sequential_df = seq_result
    /\ rec_status \in {"returned", "ShapeMismatch"} =>
          /\ rec_status = "ShapeMismatch" <=> Shape(rec_result) # ClaimedShape
          /\ rec_status = "ShapeMismatch" =>
                (recursive_df = NoFrame /\ output = NoFrame /\ pc = "raised")
          /\ rec_status = "returned" => recursive_df = rec_result

\* The recursive merger raised the shape error on four tables with distinct
\* labels.
C8_Witness ==
    /\ rec_status = "ShapeMismatch"
    /\ NumTables = 4
    /\ DistinctLabels
    /\ Shape(rec_result)[1] > ClaimedShape[1]

\* ------------------------------------------------------------------------
\* C9  The coherence check on the recursive path
\* ------------------------------------------------------------------------

\* A run delivers a matrix when it returns it or writes it to its file.
Delivered == run_status \in {"returned", "written"}

RecursiveRun == entry \in {"recursive.run", "main.recursive"}

\* C9: whenever a run that merges recursively has delivered a matrix (returned
\* it to the caller or written it to the output file), the coherence check
\* has passed on that very matrix, one row of every input table having been
\* examined.
C9_CheckedBeforeDelivery ==
    (RecursiveRun /\ Delivered) =>
        /\ check_status = "passed"
        /\ merged = output
        /\ Len(sampled) = Len(counts)

\* ------------------------------------------------------------------------
\* C10  What the coherence check accepts and rejects
\* ------------------------------------------------------------------------

\* The value of table i at row g is not the matrix's cell at (g, label of i).
Differs(i, g) ==
    callerDfs[i].data[1][g] # CellAt(merged, g, LabelOf(callerDfs[i]))

\* C10: randomly_sample_coherence_check examines the tables in order, one
\* row of each; it raises exactly when the row just examined differs from
\* the matrix's cell at (row key, the table's label), and it returns only
\* after every table has been examined with no difference; a matrix that
\* satisfies the value round trip never makes it raise.
C10_CoherenceCheck ==
    entry = "coherence_check" =>
        /\ check_status \in {"checking", "passed", "CoherenceError"}
        /\ Len(sampled) <= Len(callerDfs)
        /\ \A i \in DOMAIN sampled : sampled[i] \in Range(callerDfs[i].index)
        /\ check_status = "CoherenceError" <=>
              \E i \in DOMAIN sampled : Differs(i, sampled[i])
        /\ check_status = "CoherenceError" =>
              \A i \in 1..(Len(sampled) - 1) : ~Differs(i, sampled[i])
        /\ check_status = "passed" => Len(sampled) = Len(callerDfs)
        /\ RoundTrip(callerDfs, merged) => check_status # "CoherenceError"

\* The check has accepted a matrix of several tables that is wrong in some
\* cells: it examined one right row of every table.
C10_Witness ==
    /\ entry = "coherence_check"
    /\ check_status = "passed"
    /\ Len(sampled) = Len(callerDfs)
    /\ Len(callerDfs) >= 2
    /\ ~RoundTrip(callerDfs, merged)
    /\ \E i \in DOMAIN callerDfs : \E g \in Range(callerDfs[i].index) : Differs(i, g)

\* ------------------------------------------------------------------------
\* C11  The pairing schedule of the recursive merger
\* ------------------------------------------------------------------------

\* The list a round makes of the list l: (l[1], l[2]) joined, (l[3], l[4])
\* joined, ..., and an unpaired last table as it is.
PairUp(l) ==
    [j \in 1..((Len(l) + 1) \div 2) |->
        IF 2 * j <= Len(l) THEN Merge(l[2 * j - 1], l[2 * j]) ELSE l[2 * j - 1]]

\* The list that r rounds make of the tables passed.
RECURSIVE RoundTables(_)
RoundTables(r) == IF r = 0 THEN argDfs ELSE PairUp(RoundTables(r - 1))

\* The joins of the rounds before round r.
RECURSIVE JoinsBefore(_)
JoinsBefore(r) ==
    IF r = 0 THEN 0 ELSE JoinsBefore(r - 1) + Len(RoundTables(r - 1)) \div 2

\* C11: in every round of join_dataframes_recursively (utils/matrix.py) the
\* tables are paired left to right: after k passes of the inner loop the
\* next round's list holds, in order, the first k entries of the pairing of
\* the round's list (pairs joined, an unpaired last table as it is) and the
\* tables not yet taken are the rest of the round's list; every join made
\* so far is a join of an earlier round, all of which are done, or of this
\* round; the list a round ends with is the pairing of the list it began
\* with.
C11_PairingSchedule ==
    /\ (impl = "utils" /\ pc = "rec_inner") =>
          LET round == RoundTables(rounds)
              k     == Len(merged_dfs)
          IN /\ 2 * k <= Len(round) + 1
             /\ merged_dfs = SubSeq(PairUp(round), 1, k)
             /\ dfs = SubSeq(round, 2 * k + 1, Len(round))
             /\ joins = JoinsBefore(rounds) + (Len(round) - Len(dfs)) \div 2
    /\ (impl = "utils" /\ pc = "rec_finish") =>
          /\ dfs = RoundTables(rounds)
          /\ joins = JoinsBefore(rounds)

\* Three tables, second round: the join of the first two tables has been
\* joined with the third one, which the first round carried over.
C11_Witness ==
    /\ impl = "utils"
    /\ pc = "rec_inner"
    /\ NumTables = 3
    /\ DistinctLabels
    /\ rounds = 1
    /\ dfs = <<>>
    /\ merged_dfs = <<Merge(Merge(argDfs[1], argDfs[2]), argDfs[3])>>

\* ------------------------------------------------------------------------
\* C12  Rounds of the recursive merger
\* ------------------------------------------------------------------------

\* ceil(log2 n) for n >= 1.
CeilLog2(n) == CHOOSE r \in 0..n : 2^r >= n /\ (r = 0 \/ 2^(r - 1) < n)

\* n halved r times, rounding up.
RECURSIVE HalvedUp(_, _)
HalvedUp(n, r) == IF r = 0 THEN n ELSE (HalvedUp(n, r - 1) + 1) \div 2

\* While a round is under way its list had HalvedUp(N, rounds) tables, more
\* than one; when the loop has ended one table is left, after ceil(log2 N)
\* rounds.
RoundsHalve ==
    /\ pc = "rec_inner" =>
          /\ rounds < CeilLog2(NumTables)
          /\ HalvedUp(NumTables, rounds) > 1
          /\ Len(dfs) <= HalvedUp(NumTables, rounds)
          /\ 2 * Len(merged_dfs) \in
                {HalvedUp(NumTables, rounds) - Len(dfs),
                 HalvedUp(NumTables, rounds) - Len(dfs) + 1}
    /\ (pc = "rec_finish" \/ RecLoopEnded) =>
          /\ Len(dfs) = 1
          /\ rounds = CeilLog2(NumTables)
          /\ HalvedUp(NumTables, rounds) = 1

\* C12: for every N >= 1 the reduction loop of join_dataframes_recursively
\* goes from n tables to ceil(n/2) in each round and, unless a merge raises,
\* comes to its end, with exactly one table left after exactly ceil(log2 N)
\* rounds.
C12_RoundsTerminate ==
    /\ []RoundsHalve
    /\ (pc = "rec_begin" /\ NumTables >= 1) ~>
          \/ rec_status = "MergeError"
          \/ pc = "rec_finish" /\ Len(dfs) = 1 /\ rounds = CeilLog2(NumTables)

\* Three tables were reduced in two rounds.
C12_Witness ==
    /\ rec_status = "returned"
    /\ NumTables = 3
    /\ rounds = 2
    /\ Len(dfs) = 1

\* ------------------------------------------------------------------------
\* C13  Empty input
\* ------------------------------------------------------------------------

\* Nothing of a merger's work has been done: no shape computed, no
\* iteration count, no pass of a loop, no join, no result.
NoWorkDone ==
    /\ expected_result_shape = <<0, 0>>
    /\ num_iterations_needed = 0
    /\ seq_i = 0
    /\ pbar = 0
    /\ joins = 0
    /\ rounds = 0
    /\ merged_dfs = <<>>
    /\ seq_result = NoFrame
    /\ rec_result = NoFrame

\* C13: on an empty list each merger of utils/matrix.py raises the
\* empty-input error as its first step, nothing of its work being done and
\* no matrix returned; the error is raised on no other input.
C13_EmptyInput ==
    /\ NumTables = 0 =>
          /\ NoWorkDone
          /\ seq_status \in {"none", "EmptyInput"}
          /\ rec_status \in {"none", "EmptyInput"}
          /\ pc \in {"seq_begin", "rec_begin", "raised"}
          /\ pc = "raised" => (seq_status = "EmptyInput" \/ rec_status = "EmptyInput")
          /\ sequential_df = NoFrame
          /\ recursive_df = NoFrame
          /\ output = NoFrame
    /\ (seq_status = "EmptyInput" \/ rec_status = "EmptyInput") => NumTables = 0

\* The recursive merger has raised on the empty list.
C13_Witness ==
    /\ NumTables = 0
    /\ entry = "recursive"
    /\ rec_status = "EmptyInput"
    /\ pc = "raised"

\* ------------------------------------------------------------------------
\* C14  A single table
\* ------------------------------------------------------------------------

\* C14: on a list of one table each merger of utils/matrix.py returns,
\* without error, a matrix equal to that table (same rows in the same
\* order, same label, same values), and makes no join: the sequential
\* merger's only pass finds result unset and assigns the table, the
\* recursive merger does not enter its reduction loop.
C14_SingleTable ==
    NumTables = 1 =>
        /\ seq_status \in {"none", "running", "returned"}
        /\ rec_status \in {"none", "running", "returned"}
        /\ seq_status = "returned" =>
              (sequential_df = argDfs[1] /\ Shape(sequential_df)[2] = 1)
        /\ rec_status = "returned" =>
              (recursive_df = argDfs[1] /\ Shape(recursive_df)[2] = 1)
        /\ (pc = "seq_loop" /\ seq_i <= Len(dfs)) => seq_result = NoFrame
        /\ seq_status = "returned" => seq_i = 2
        /\ pc # "rec_inner"
        /\ joins = 0
        /\ rounds = 0
        /\ pbar = 0

\* Both mergers returned the one table, whose rows are not in key order.
C14_Witness ==
    /\ NumTables = 1
    /\ argDfs[1].index = <<2, 1>>
    /\ seq_status = "returned"
    /\ rec_status = "returned"
    /\ recursive_df = argDfs[1]

\* ------------------------------------------------------------------------
\* C15  The shape error of read_counts
\* ------------------------------------------------------------------------

\* The inputs read_counts loads: all of them, or the first limit_inputs.
LoadedInputs ==
    [i \in 1..(IF limit_inputs # 0 /\ limit_inputs < Len(counts)
               THEN limit_inputs ELSE Len(counts)) |-> counts[i]]

\* Table t holds the rows of file f, in file order, under f's sample name.
HoldsFile(t, f) ==
    /\ t.columns = <<f.sample_name>>
    /\ Len(t.index) = Len(f.rows)
    /\ \A k \in DOMAIN f.rows :
          /\ t.index[k] = f.rows[k][1]
          /\ t.data[1][f.rows[k][1]] = f.rows[k][2]

\* C15: on a non-empty batch of loaded inputs, read_counts ends with the
\* shape error exactly when some loaded table's row count differs from the
\* first one's, and then returns nothing; otherwise it returns one table
\* per loaded input, in input order, each holding its file's rows under its
\* sample identifier.
C15_LoadShapeError ==
    (entry = "read_counts" /\ pc \in {"done", "raised"} /\ LoadedInputs # <<>>) =>
        /\ run_status \in {"loaded", "LoadShapeMismatch"}
        /\ run_status = "LoadShapeMismatch" <=>
              \E i \in DOMAIN LoadedInputs :
                  Len(LoadedInputs[i].rows) # Len(LoadedInputs[1].rows)
        /\ run_status = "LoadShapeMismatch" => callerDfs = <<>>
        /\ run_status = "loaded" =>
              /\ Len(callerDfs) = Len(LoadedInputs)
              /\ \A i \in DOMAIN LoadedInputs : HoldsFile(callerDfs[i], LoadedInputs[i])

\* The third of three loaded files has one row more than the first two.
C15_Witness ==
    /\ entry = "read_counts"
    /\ run_status = "LoadShapeMismatch"
    /\ Len(LoadedInputs) = 3
    /\ Len(LoadedInputs[2].rows) = Len(LoadedInputs[1].rows)
    /\ Len(LoadedInputs[3].rows) # Len(LoadedInputs[1].rows)

\* ------------------------------------------------------------------------
\* C16  The caller's list
\* ------------------------------------------------------------------------

\* C16: at every point of a call of a merger of utils/matrix.py, and after
\* it has returned or raised, the list the caller passed is what it was when
\* passed (same length, same tables in the same order); each merger starts
\* its loop on a list equal to it, so that in concordance_test the recursive
\* merger starts on the list the sequential merger started on.
C16_CallerListUnchanged ==
    impl = "utils" =>
        /\ callerDfs = argDfs
        /\ pc = "seq_loop" => dfs = argDfs
        /\ (pc = "rec_inner" /\ rounds = 0 /\ merged_dfs = <<>>) => dfs = argDfs
        /\ (pc = "rec_finish" /\ rounds = 0) => dfs = argDfs
        /\ (entry = "concordance_test" /\ rec_status # "none") =>
              seq_status = "returned"

\* In concordance_test, after the sequential merger returned, the recursive
\* merger has taken tables off its own list of four; the caller's list still
\* has them.
C16_Witness ==
    /\ entry = "concordance_test"
    /\ impl = "utils"
    /\ seq_status = "returned"
    /\ pc = "rec_inner"
    /\ rounds = 0
    /\ NumTables = 4
    /\ Len(dfs) < 4
    /\ callerDfs = argDfs

\* ------------------------------------------------------------------------
\* C17  Cache hits and misses of the DNAnexus getters
\* ------------------------------------------------------------------------

\* C17: every call of get_dnanexus_properties or get_dnanexus_describe that
\* is served, as a hit or as a miss, returns what a fresh fetch from the API
\* for that file id would have returned at the moment of the call.
C17_ServedAsFresh ==
    call.outcome \in {"hit", "miss"} => call.value = call.fresh

\* ------------------------------------------------------------------------
\* C18  Value round trip of the recursive merger of __main__.py
\* ------------------------------------------------------------------------

\* C18: whenever join_dataframes_recursively of __main__.py returns on a
\* non-empty list of tables with distinct labels, in any order, every
\* (row key, value) of every input table is in the returned matrix at that
\* row, under the table's sample identifier.
C18_MainRoundTrip ==
    (entry = "main.recursive" /\ rec_status = "returned" /\ DistinctLabels)
        => RoundTrip(argDfs, recursive_df)

\* ------------------------------------------------------------------------
\* C19  The sequential merger of __main__.py
\* ------------------------------------------------------------------------

\* The first n tables of l outer-joined in input order.
RECURSIVE JoinedInOrder(_, _)
JoinedInOrder(l, n) ==
    IF n = 1 THEN l[1] ELSE Merge(JoinedInOrder(l, n - 1), l[n])

\* C19: when join_dataframes_sequentially of __main__.py has ended its loop
\* on N >= 1 tables that share one row-key set, it returns a matrix with N
\* columns, the tables outer-joined in input order.
C19_MainSequentialMerges ==
    (entry = "main.sequential" /\ NumTables >= 1 /\ SharedKeySet /\ SeqLoopEnded) =>
        /\ seq_status = "returned"
        /\ Shape(sequential_df)[2] = NumTables
        /\ sequential_df = JoinedInOrder(argDfs, NumTables)

\* ------------------------------------------------------------------------
\* C20  The download directory in developer mode
\* ------------------------------------------------------------------------

\* The directory is handed to download_files.
AtDownloadFiles == pc = "dir_download"

\* C20: in developer mode the directory that download_and_merge_counts and
\* the concordance-test run pass to download_files is a path, names a
\* directory that exists, and is the cache folder recorded in the pointer
\* file (the one found there, or else the one just created and recorded).
C20_DeveloperDownloadDirectory ==
    (AtDownloadFiles /\ developer_mode) =>
        /\ download_directory # NoPath
        /\ download_directory \in folders
        /\ download_directory = pointer

\* ------------------------------------------------------------------------
\* C21  clean_cache
\* ------------------------------------------------------------------------

\* The last call made was clean_cache and it has ended.
CleanCacheEnded == entry = "clean_cache" /\ pc \in {"dir_done", "dir_raised"}

\* C21: from any state of the pointer file and the cache folder, clean_cache
\* returns without raising and leaves no pointer file, so that a following
\* get_cache_folder returns None (and create_new_cache_folder goes through).
C21_CleanCacheSucceeds ==
    CleanCacheEnded =>
        /\ dir_status = "cleaned"
        /\ pointer = NoPath
        /\ CacheFolderOutcome = "None"

\* ------------------------------------------------------------------------
\* C22  When the concordance test passes
\* ------------------------------------------------------------------------

\* The input tables have the same row keys in the same order.
SharedIndex == \A i \in DOMAIN argDfs : argDfs[i].index = argDfs[1].index

\* concordance_test has ended on a non-empty list of tables with one row
\* index and distinct sample labels.
ConcordanceTestEnded ==
    /\ entry = "concordance_test"
    /\ pc \in {"done", "raised"}
    /\ NumTables >= 1
    /\ SharedIndex
    /\ DistinctLabels

\* C22: on a non-empty list of tables with the same row keys in the same
\* order and distinct sample labels, concordance_test completes without
\* raising exactly when the input labels are in ascending order; otherwise
\* both mergers return and the assertion fails: the sequential result has
\* the columns in input order, the recursive result has them sorted.
C22_ConcordantIffSorted ==
    ConcordanceTestEnded =>
        /\ test_status = "concordant" <=> IsSortedLabels(InputLabels)
        /\ test_status \in {"concordant", "AssertionError"}
        /\ seq_status = "returned" /\ rec_status = "returned"
        /\ sequential_df.columns = InputLabels
        /\ recursive_df.columns = SortLabels(InputLabels)

\* The test has raised on three or more tables given out of order.
C22_Witness ==
    /\ ConcordanceTestEnded
    /\ NumTables >= 3
    /\ ~IsSortedLabels(InputLabels)
    /\ test_status = "AssertionError"

==============================================================================
